---------------------------- MODULE Spec2Model ----------------------------
(***************************************************************************)
(* Model of the interactive login session driver `refreshTokens` of        *)
(* clcl777/claude-code-base-action.                                         *)
(*                                                                         *)
(* The driver with URL interception and menu detection is the first        *)
(* definition in src/src/refresh_token.ts (lines 1-471).                   *)
(*                                                                         *)
(* Text is modelled at character level: a string is a sequence of          *)
(* one-character strings, a non-ASCII character is named by its code       *)
(* point ("U+25BA").  A nullable string (string | null) is a sequence of   *)
(* zero or one string.                                                     *)
(***************************************************************************)
EXTENDS Integers, Sequences, FiniteSets, TLC

(***************************************************************************)
(* Text helpers (JavaScript String / RegExp primitives)                    *)
(***************************************************************************)

\* String.prototype.toLowerCase on one character.
LowerChar(c) ==
    CASE c = "A" -> "a" [] c = "B" -> "b" [] c = "C" -> "c" [] c = "D" -> "d"
      [] c = "E" -> "e" [] c = "F" -> "f" [] c = "G" -> "g" [] c = "H" -> "h"
      [] c = "I" -> "i" [] c = "J" -> "j" [] c = "K" -> "k" [] c = "L" -> "l"
      [] c = "M" -> "m" [] c = "N" -> "n" [] c = "O" -> "o" [] c = "P" -> "p"
      [] c = "Q" -> "q" [] c = "R" -> "r" [] c = "S" -> "s" [] c = "T" -> "t"
      [] c = "U" -> "u" [] c = "V" -> "v" [] c = "W" -> "w" [] c = "X" -> "x"
      [] c = "Y" -> "y" [] c = "Z" -> "z" [] OTHER -> c

\* String.prototype.toLowerCase.
toLowerCase(t) == [i \in 1..Len(t) |-> LowerChar(t[i])]

\* The literal lit occurs in t starting at position i.
StartsWithAt(t, i, lit) ==
    /\ i >= 1
    /\ i + Len(lit) - 1 <= Len(t)
    /\ \A k \in 1..Len(lit) : t[i + k - 1] = lit[k]

\* String.prototype.includes.
includes(t, s) == \E i \in 1..(Len(t) + 1) : StartsWithAt(t, i, s)

\* String.prototype.startsWith.
startsWith(t, s) == StartsWithAt(t, 1, s)

\* The regular expression class \s (the members that occur in the model).
IsSpace(c) == c \in {" ", "\n", "\t", "\r"}

\* String.prototype.trim.
trim(t) ==
    IF \A i \in 1..Len(t) : IsSpace(t[i]) THEN << >>
    ELSE LET a == CHOOSE i \in 1..Len(t) :
                      ~IsSpace(t[i]) /\ \A k \in 1..(i - 1) : IsSpace(t[k])
             b == CHOOSE i \in 1..Len(t) :
                      ~IsSpace(t[i]) /\ \A k \in (i + 1)..Len(t) : IsSpace(t[k])
         IN  SubSeq(t, a, b)

\* The character class of the URL patterns: anything but white space and
\* < > " { } | \ ^ U+0060 (backtick) [ ].
UrlChar(c) ==
    /\ ~IsSpace(c)
    /\ c \notin {"<", ">", "\"", "{", "}", "|", "\\", "^", "U+0060", "[", "]"}

\* Greedy [^...]+ from position i: the last position of the longest run of
\* URL characters that starts at i (i - 1 when the run is empty).
RunEnd(t, i) ==
    CHOOSE j \in (i - 1)..Len(t) :
        /\ \A k \in i..j : UrlChar(t[k])
        /\ j = Len(t) \/ ~UrlChar(t[j + 1])

\* Greedy \s* from position i: the first position after the white space.
SkipSpace(t, i) ==
    CHOOSE j \in i..(Len(t) + 1) :
        /\ \A k \in i..(j - 1) : IsSpace(t[k])
        /\ j = Len(t) + 1 \/ ~IsSpace(t[j])

\* literal followed by [^...]+ , anchored at i: end of the match, 0 if none.
MatchLitRunAt(t, i, lit) ==
    IF StartsWithAt(t, i, lit) /\ RunEnd(t, i + Len(lit)) >= i + Len(lit)
    THEN RunEnd(t, i + Len(lit))
    ELSE 0

\* https?:\/\/[^...]+ anchored at i: end of the match, 0 if none.
MatchHttpAt(t, i) ==
    LET s == MatchLitRunAt(t, i, <<"h","t","t","p","s",":","/","/">>)
    IN  IF s # 0 THEN s
        ELSE MatchLitRunAt(t, i, <<"h","t","t","p",":","/","/">>)

\* prefix\s*(https?:\/\/[^...]+) anchored at i: end of the match, 0 if none.
MatchPrefixedAt(t, i, prefix) ==
    IF StartsWithAt(t, i, prefix)
    THEN MatchHttpAt(t, SkipSpace(t, i + Len(prefix)))
    ELSE 0

\* The URL patterns of extractUrl, in the order of the array.
NumUrlPatterns == 6

\* Pattern number p anchored at position i: end of the match, 0 if none.
PatternAt(p, t, i) ==
    CASE p = 1 -> MatchHttpAt(t, i)
      [] p = 2 -> MatchLitRunAt(t, i, <<"c","l","a","u","d","e",".","a","i","/">>)
      [] p = 3 -> MatchLitRunAt(t, i,
                     <<"a","n","t","h","r","o","p","i","c",".","c","o","m","/">>)
      [] p = 4 -> MatchPrefixedAt(t, i, <<"V","i","s","i","t",":">>)
      [] p = 5 -> MatchPrefixedAt(t, i, <<"O","p","e","n",":">>)
      [] p = 6 -> MatchPrefixedAt(t, i, <<"U","R","L",":">>)

\* text.match(pattern) with the g flag, element [0]: the leftmost match of
\* pattern p as a nullable string.
FirstMatch(p, t) ==
    IF \E i \in 1..Len(t) : PatternAt(p, t, i) # 0
    THEN LET i == CHOOSE i \in 1..Len(t) :
                      /\ PatternAt(p, t, i) # 0
                      /\ \A k \in 1..(i - 1) : PatternAt(p, t, k) = 0
         IN  << SubSeq(t, i, PatternAt(p, t, i)) >>
    ELSE << >>

\* url.replace: removes a leading Visit: / Open: / URL: (any letter case)
\* and the white space after it.
StripPrefix(url) ==
    LET low == toLowerCase(url)
        cut(prefix) == SubSeq(url, SkipSpace(url, Len(prefix) + 1), Len(url))
    IN  IF startsWith(low, <<"v","i","s","i","t",":">>)
        THEN cut(<<"v","i","s","i","t",":">>)
        ELSE IF startsWith(low, <<"o","p","e","n",":">>)
        THEN cut(<<"o","p","e","n",":">>)
        ELSE IF startsWith(low, <<"u","r","l",":">>)
        THEN cut(<<"u","r","l",":">>)
        ELSE url

\* extractUrl that lets the last pattern that matches decide and returns
\* its match as it is.
extractUrlLastPattern(text) ==
    IF \E p \in 1..NumUrlPatterns : FirstMatch(p, text) # << >>
    THEN LET p == CHOOSE p \in 1..NumUrlPatterns :
                      /\ FirstMatch(p, text) # << >>
                      /\ \A q \in (p + 1)..NumUrlPatterns : FirstMatch(q, text) = << >>
         IN  << FirstMatch(p, text)[1] >>
    ELSE << >>

\* extractUrl: the first pattern that matches decides; null when none does.
extractUrl(text) ==
    IF \E p \in 1..NumUrlPatterns : FirstMatch(p, text) # << >>
    THEN LET p == CHOOSE p \in 1..NumUrlPatterns :
                      /\ FirstMatch(p, text) # << >>
                      /\ \A q \in 1..(p - 1) : FirstMatch(q, text) = << >>
         IN  << StripPrefix(FirstMatch(p, text)[1]) >>
    ELSE << >>

menuIndicators ==
    << <<"C","h","o","o","s","e"," ","a","n"," ","o","p","t","i","o","n">>,
       <<"S","e","l","e","c","t"," ","a","n"," ","o","p","t","i","o","n">>,
       <<"S","e","l","e","c","t"," ","l","o","g","i","n"," ","m","e","t","h","o","d">>,
       <<"l","o","g","i","n"," ","m","e","t","h","o","d">>,
       <<"C","h","o","o","s","e"," ","l","o","g","i","n"," ","m","e","t","h","o","d">>,
       <<"P","r","e","s","s"," ","E","n","t","e","r">>,
       <<"c","o","n","t","i","n","u","e">>,
       <<"U+25BA">>,
       <<"U+2192">>,
       <<">">>,
       <<"1",")">>,
       <<"2",")">>,
       <<"3",")">>,
       <<"[","E","n","t","e","r","]">>,
       <<"(","E","n","t","e","r",")">>,
       <<"t","o"," ","c","o","n","t","i","n","u","e">>,
       <<"t","o"," ","p","r","o","c","e","e","d">>,
       <<"O","A","u","t","h">>,
       <<"B","r","o","w","s","e","r"," ","l","o","g","i","n">> >>

\* detectMenu that compares the text as it is with the indicators.
detectMenuCaseSensitive(text) ==
    \E n \in 1..Len(menuIndicators) : includes(text, menuIndicators[n])

\* detectMenu: case-insensitive substring test against menuIndicators.
detectMenu(text) ==
    \E n \in 1..Len(menuIndicators) :
        includes(toLowerCase(text), toLowerCase(menuIndicators[n]))


(***************************************************************************)
(* Bounds and inputs of the session model                                  *)
(***************************************************************************)

\* Number of chunks the child emits in one session (both streams together).
MaxChunks == 2

\* "Press Enter"
TextMenu == <<"P","r","e","s","s"," ","E","n","t","e","r">>

\* "https://a.io"
TextUrlA == <<"h","t","t","p","s",":","/","/","a",".","i","o">>

\* "URL: http://b"
TextUrlB == <<"U","R","L",":"," ","h","t","t","p",":","/","/","b">>

\* The texts a chunk of the child's stdout is drawn from.
StdoutTexts == {TextMenu, TextUrlA, TextUrlB}

\* The texts a chunk of the child's stderr is drawn from.
StderrTexts == {TextMenu, TextUrlB}

\* All chunk texts.
ChunkTexts == StdoutTexts \cup StderrTexts

\* What `echo "$1" > /tmp/claude-intercepted-url.txt` leaves in the file
\* when the child opens "https://f.io".
FileUrl == <<"h","t","t","p","s",":","/","/","f",".","i","o","\n">>

\* The exit codes a 'close' event reports; << >> is null (no code, the child
\* was ended by a signal).
CloseCodes == {<< >>, <<0>>, <<1>>}

(***************************************************************************)
(* Program constants (milliseconds)                                        *)
(***************************************************************************)
EnterDelayMs == 500
InitWaitMs == 1000
PollMs == 500
menuWaitTime == 10000
GraceMs == 5000
\* timeoutMs twice as long.
timeoutMsDoubled == 2 * 120000
timeoutMs == 120000
KillGraceMs == 3000

(***************************************************************************)
(* State                                                                   *)
(***************************************************************************)
VARIABLES
    pc,                 \* position of the async function refreshTokens
    now,                \* Date.now(), ms since the call
    timers,             \* pending setTimeout callbacks
    intervalOn,         \* urlCheckInterval is scheduled
    uncaught,           \* the exception the Node process died of (nullable)
    child,              \* "none", "running", "closed" or "failed" (not started)
    closeCode,          \* the code the 'close' listener was called with (nullable;
                        \* the code null is << >>, so null is << << >> >>)
    stdinEnded,         \* claudeProcess.stdin.end() was called
    listening,          \* the exit wait registered its 'close'/'error' listeners
    output,             \* accumulated stdout text
    errorOutput,        \* accumulated stderr text
    loginUrl,           \* latched login URL ("" when none)
    menuDisplayed,      \* a menu was detected
    urlDetected,        \* a login URL was latched
    mockScriptsCreated, \* the mock scripts were written
    scriptsOnDisk,      \* the mock scripts exist in /tmp/claude-mock-scripts
    fileContent,        \* content of /tmp/claude-intercepted-url.txt ("" = none)
    inflight,           \* the check the interval started and that has not
                        \* returned yet: << >> none, << "cat" >> started,
                        \* << "cat", c >> cat has read c from the file
    menuStartTime,      \* Date.now() when the menu poll started
    resolved,           \* the one-shot guard of the exit wait
    settled,            \* "pending", "resolved" or "rejected"
    exitCode,           \* the value the exit wait resolved with (nullable)
    result,             \* the RefreshTokenResult of the return statement (nullable)
    effects,            \* what the driver did to the child and to the exit wait
    signalAt,           \* when kill was called with each signal (-1: never)
    chunks,             \* the chunks received, in arrival order
    fileApplied         \* an intercepted-URL check has assigned loginUrl

vars == << pc, now, timers, intervalOn, uncaught, child, closeCode, stdinEnded, listening, output,
           errorOutput, loginUrl, menuDisplayed, urlDetected,
           mockScriptsCreated, scriptsOnDisk, fileContent, inflight,
           menuStartTime, resolved, settled, exitCode, result,
           effects, signalAt, chunks, fileApplied >>

\* Variables of the session flags and buffers.
sessionVars == << output, errorOutput, loginUrl, menuDisplayed, urlDetected,
                  chunks, fileApplied >>

\* Variables of the exit wait and of the result.
exitVars == << listening, resolved, settled, exitCode, result >>

\* Variables of the file system.
fsVars == << mockScriptsCreated, scriptsOnDisk, fileContent >>

Init ==
    /\ pc = "setup"
    /\ now = 0
    /\ timers = {}
    /\ intervalOn = FALSE
    /\ uncaught = << >>
    /\ child = "none"
    /\ closeCode = << >>
    /\ stdinEnded = FALSE
    /\ listening = FALSE
    /\ output = << >>
    /\ errorOutput = << >>
    /\ loginUrl = << >>
    /\ menuDisplayed = FALSE
    /\ urlDetected = FALSE
    /\ mockScriptsCreated = FALSE
    /\ scriptsOnDisk = FALSE
    /\ fileContent = << >>
    /\ inflight = << >>
    /\ menuStartTime = 0
    /\ resolved = FALSE
    /\ settled = "pending"
    /\ exitCode = << >>
    /\ result = << >>
    /\ effects = << >>
    /\ signalAt = [SIGTERM |-> -1, SIGKILL |-> -1]
    /\ chunks = << >>
    /\ fileApplied = FALSE

(***************************************************************************)
(* Timers                                                                  *)
(***************************************************************************)

\* The Node process has died of an uncaught exception: nothing runs any more.
crashed == uncaught # << >>

\* The promise of refreshTokens has settled: the caller has the result.
delivered == pc = "done"

\* setTimeout: a pending callback, due at now + delay.
Timer(name, delay, cause) == [name |-> name, at |-> now + delay, cause |-> cause]

\* The pending timers called name.
Named(name) == {t \in timers : t.name = name}

\* clearTimeout.
Clear(ts, name) == {t \in ts : t.name # name}

\* A timer whose time has come.
Due(t) == t \in timers /\ t.at <= now

\* One entry of the effects log: the operation, its argument, whether it
\* reached a live child, and the chunk that caused it (0 if none).
Effect(op, arg, ok, cause) ==
    [op |-> op, arg |-> arg, ok |-> ok, cause |-> cause]

\* Time passes up to the next pending timeout; no due callback is skipped.
\* now is the time of the last timeout that came due: the events that follow
\* it happen between now and the next pending timeout, and a timeout they
\* set counts from now.  The ticks of urlCheckInterval (every 500 ms) are
\* not placed in time: while the interval is scheduled its callback may run
\* at any moment.
Advance ==
    /\ ~crashed
    /\ timers # {}
    /\ \A t \in timers : t.at > now
    /\ now' = (CHOOSE t \in timers : \A u \in timers : t.at <= u.at).at
    /\ UNCHANGED << closeCode, signalAt, intervalOn, pc, timers, uncaught, child, stdinEnded, inflight,
                    menuStartTime, effects, sessionVars, exitVars, fsVars >>


(***************************************************************************)
(* Results                                                                 *)
(***************************************************************************)

\* ExitResult that reports success whatever the exit code.
ExitResultAlwaysTrue(code, url) ==
    [success |-> TRUE, output |-> <<output>>,
     errorOutput |-> <<errorOutput>>, loginUrl |-> <<url>>, error |-> << >>]

\* return { success, output, errorOutput, loginUrl } after the exit wait.
ExitResult(code, url) ==
    [success |-> (code = 0), output |-> <<output>>,
     errorOutput |-> <<errorOutput>>, loginUrl |-> <<url>>, error |-> << >>]

\* CatchResult that also returns the captured output and URL.
CatchResultWithOutput(message) ==
    [success |-> FALSE, output |-> <<output>>, errorOutput |-> <<errorOutput>>,
     loginUrl |-> <<loginUrl>>, error |-> <<message>>]

\* return { success: false, error: errorMessage } of the catch block.
CatchResult(message) ==
    [success |-> FALSE, output |-> << >>, errorOutput |-> << >>,
     loginUrl |-> << >>, error |-> <<message>>]

(***************************************************************************)
(* Setup and spawn                                                         *)
(***************************************************************************)

\* mkdir / writeFile / chmod of the mock scripts: they succeed, or one of
\* them throws and the catch block builds the result.
Setup ==
    /\ pc = "setup"
    /\ ~crashed
    /\ \/ /\ mockScriptsCreated' = TRUE
          /\ scriptsOnDisk' = TRUE
          /\ pc' = "spawn"
          /\ UNCHANGED result
       \/ /\ mockScriptsCreated' = FALSE
          /\ scriptsOnDisk' \in BOOLEAN
          /\ result' = << CatchResult("EACCES: permission denied") >>
          /\ pc' = "cleanup"
    /\ UNCHANGED << closeCode, signalAt, intervalOn, now, timers, uncaught, child, stdinEnded, inflight,
                    menuStartTime, effects, sessionVars, listening, resolved,
                    settled, exitCode, fileContent >>

\* spawn("claude", ...) and the registrations that follow it up to the first
\* await.  spawn returns a child, throws, or returns a child that could not
\* be started: then 'error' is emitted on the next tick, the listener
\* registered first rethrows it outside every try block, and the process
\* dies of the uncaught exception.
Spawn ==
    /\ pc = "spawn"
    /\ ~crashed
    /\ \/ /\ child' = "running"
          /\ timers' = { Timer("initWait", InitWaitMs, 0) }
          /\ intervalOn' = TRUE
          /\ pc' = "initWait"
          /\ UNCHANGED << uncaught, result >>
       \/ /\ result' = << CatchResult("spawn claude EINVAL") >>
          /\ pc' = "cleanup"
          /\ UNCHANGED << child, timers, intervalOn, uncaught >>
       \/ /\ child' = "failed"
          /\ timers' = { Timer("initWait", InitWaitMs, 0) }
          /\ intervalOn' = TRUE
          /\ pc' = "initWait"
          /\ uncaught' = << "spawn claude ENOENT" >>
          /\ UNCHANGED result
    /\ UNCHANGED << closeCode, signalAt, now, stdinEnded, inflight, menuStartTime, effects,
                    sessionVars, listening, resolved, settled, exitCode, fsVars >>

(***************************************************************************)
(* Output handlers                                                         *)
(***************************************************************************)

\* extractUrl and detectMenu on the chunk texts, evaluated once.
UrlOf == [text \in ChunkTexts |-> extractUrl(text)]
MenuOf == [text \in ChunkTexts |-> detectMenu(text)]

\* if (url && !urlDetected)
UrlGuard(url) == url # << >> /\ ~urlDetected

\* MenuGuard without the latch: every menu chunk schedules an Enter key.
MenuGuardNoLatch(text) == MenuOf[text]

\* if (detectMenu(text) && !menuDisplayed)
MenuGuard(text) == MenuOf[text] /\ ~menuDisplayed

\* Latch with the menu flag assigned on every chunk, so that a chunk without
\* a menu resets it.
LatchResets(text) ==
    /\ IF UrlGuard(UrlOf[text])
       THEN loginUrl' = UrlOf[text][1] /\ urlDetected' = TRUE
       ELSE UNCHANGED << loginUrl, urlDetected >>
    /\ menuDisplayed' = MenuOf[text]
    /\ timers' = IF MenuGuard(text)
                 THEN timers \cup {Timer("enter", EnterDelayMs, Len(chunks) + 1)}
                 ELSE timers

\* The part of a data handler that is the same for both streams: latch the
\* URL, latch the menu and schedule the Enter key.
Latch(text) ==
    /\ IF UrlGuard(UrlOf[text])
       THEN loginUrl' = UrlOf[text][1] /\ urlDetected' = TRUE
       ELSE UNCHANGED << loginUrl, urlDetected >>
    /\ IF MenuGuard(text)
       THEN /\ menuDisplayed' = TRUE
            /\ timers' = timers \cup {Timer("enter", EnterDelayMs, Len(chunks) + 1)}
       ELSE UNCHANGED << menuDisplayed, timers >>

\* claudeProcess.stdout.on("data", ...)
StdoutData ==
    /\ ~crashed
    /\ child = "running"
    /\ Len(chunks) < MaxChunks
    /\ \E text \in StdoutTexts :
        /\ output' = output \o text
        /\ Latch(text)
        /\ chunks' = Append(chunks, [stream |-> "stdout", text |-> text])
    /\ UNCHANGED << closeCode, signalAt, intervalOn, pc, now, uncaught, child, stdinEnded, inflight,
                    menuStartTime, effects, errorOutput, fileApplied,
                    exitVars, fsVars >>

\* StderrData that appends the text to the buffer of stdout.
StderrDataToOutput ==
    /\ ~crashed
    /\ child = "running"
    /\ Len(chunks) < MaxChunks
    /\ \E text \in StderrTexts :
        /\ output' = output \o text
        /\ Latch(text)
        /\ chunks' = Append(chunks, [stream |-> "stderr", text |-> text])
    /\ UNCHANGED << closeCode, signalAt, intervalOn, pc, now, uncaught, child, stdinEnded, inflight,
                    menuStartTime, effects, errorOutput, fileApplied,
                    exitVars, fsVars >>

\* claudeProcess.stderr.on("data", ...)
StderrData ==
    /\ ~crashed
    /\ child = "running"
    /\ Len(chunks) < MaxChunks
    /\ \E text \in StderrTexts :
        /\ errorOutput' = errorOutput \o text
        /\ Latch(text)
        /\ chunks' = Append(chunks, [stream |-> "stderr", text |-> text])
    /\ UNCHANGED << closeCode, signalAt, intervalOn, pc, now, uncaught, child, stdinEnded, inflight,
                    menuStartTime, effects, output, fileApplied,
                    exitVars, fsVars >>

(***************************************************************************)
(* Writes to the child's input                                             *)
(***************************************************************************)

\* A write reaches the child while the child runs and its input is open.
WriteOk == child = "running" /\ ~stdinEnded

\* claudeProcess.stdin.write(data).  A write on an ended or destroyed stream
\* does not throw: the stream reports the error asynchronously, and as the
\* stream has no 'error' listener the report is either dropped or ends the
\* process as an uncaught exception.
Write(data, cause) ==
    /\ effects' = Append(effects, Effect("write", data, WriteOk, cause))
    /\ uncaught' \in (IF WriteOk THEN {<< >>}
                                ELSE {<< >>, << "write after end" >>})

\* The callback of the 500 ms timer set on menu detection.
EnterFire ==
    /\ ~crashed
    /\ \E t \in Named("enter") :
        /\ Due(t)
        /\ timers' = timers \ {t}
        /\ Write(<<"\n">>, t.cause)
    /\ UNCHANGED << closeCode, signalAt, intervalOn, pc, now, child, stdinEnded, inflight, menuStartTime,
                    sessionVars, exitVars, fsVars >>


(***************************************************************************)
(* Intercepted-URL checks                                                  *)
(***************************************************************************)

\* checkInterceptedUrl: the trimmed content that cat has read from the file
\* when it starts with "http", else null.
checkInterceptedUrl(stdout) ==
    LET url == trim(stdout)
    IN  IF url # << >> /\ startsWith(url, <<"h","t","t","p">>)
        THEN << url >>
        ELSE << >>

\* The setInterval callback up to its await: when no URL is latched yet it
\* starts a check.  A check (one run of cat) returns before the next tick.
IntervalTick ==
    /\ ~crashed
    /\ intervalOn
    /\ inflight = << >>
    /\ inflight' = IF urlDetected THEN << >> ELSE << "cat" >>
    /\ UNCHANGED << closeCode, signalAt, pc, now, timers, intervalOn, uncaught, child, stdinEnded, menuStartTime,
                    effects, sessionVars, exitVars, fsVars >>

\* The cat that a check runs reads the file, at some moment between the
\* start of the check and its return.
CatReads ==
    /\ ~crashed
    /\ inflight = << "cat" >>
    /\ inflight' = << "cat", fileContent >>
    /\ UNCHANGED << closeCode, signalAt, pc, now, timers, intervalOn, uncaught, child, stdinEnded, menuStartTime,
                    effects, sessionVars, exitVars, fsVars >>

\* The setInterval callback after its await: the check has returned.
CheckComplete ==
    /\ ~crashed
    /\ Len(inflight) = 2
    /\ inflight' = << >>
    /\ IF checkInterceptedUrl(inflight[2]) # << >>
       THEN /\ loginUrl' = checkInterceptedUrl(inflight[2])[1]
            /\ urlDetected' = TRUE
            /\ fileApplied' = TRUE
            /\ intervalOn' = FALSE
       ELSE UNCHANGED << loginUrl, urlDetected, fileApplied, intervalOn >>
    /\ UNCHANGED << closeCode, signalAt, pc, now, timers, uncaught, child, stdinEnded, menuStartTime,
                    effects, output, errorOutput, menuDisplayed, chunks,
                    exitVars, fsVars >>

(***************************************************************************)
(* The steps of refreshTokens after the spawn                              *)
(***************************************************************************)

\* The 1000 ms wait is over: write the login command and start the menu poll.
InitWaitDone ==
    /\ ~crashed
    /\ pc = "initWait"
    /\ \E t \in Named("initWait") :
        /\ Due(t)
        /\ timers' = (timers \ {t}) \cup {Timer("poll", PollMs, 0)}
    /\ Write(<<"/","l","o","g","i","n","\n">>, 0)
    /\ menuStartTime' = now
    /\ pc' = "poll"
    /\ UNCHANGED << closeCode, signalAt, intervalOn, now, child, stdinEnded, inflight, sessionVars, exitVars,
                    fsVars >>

\* PollWake that gives up with an error when the 10 s are over without a
\* menu.
PollWakeGivesUp ==
    /\ ~crashed
    /\ pc = "poll"
    /\ \E t \in Named("poll") :
        /\ Due(t)
        /\ IF menuDisplayed
           THEN /\ timers' = (timers \ {t}) \cup {Timer("grace", GraceMs, 0)}
                /\ pc' = "grace"
                /\ UNCHANGED result
           ELSE IF ~(now - menuStartTime < menuWaitTime)
           THEN /\ timers' = timers \ {t}
                /\ pc' = "cleanup"
                /\ result' = << CatchResult("Menu was not detected") >>
           ELSE /\ timers' = (timers \ {t}) \cup {Timer("poll", PollMs, 0)}
                /\ pc' = "poll"
                /\ UNCHANGED result
    /\ UNCHANGED << closeCode, signalAt, intervalOn, now, uncaught, child, stdinEnded, inflight, menuStartTime,
                    effects, sessionVars, listening, resolved, settled, exitCode, fsVars >>

\* One round of the menu poll: leave the loop when the menu was seen or the
\* 10 s are over, else sleep again.
PollWake ==
    /\ ~crashed
    /\ pc = "poll"
    /\ \E t \in Named("poll") :
        /\ Due(t)
        /\ IF menuDisplayed \/ ~(now - menuStartTime < menuWaitTime)
           THEN /\ timers' = (timers \ {t}) \cup {Timer("grace", GraceMs, 0)}
                /\ pc' = "grace"
           ELSE /\ timers' = (timers \ {t}) \cup {Timer("poll", PollMs, 0)}
                /\ pc' = "poll"
    /\ UNCHANGED << closeCode, signalAt, intervalOn, now, uncaught, child, stdinEnded, inflight, menuStartTime,
                    effects, sessionVars, exitVars, fsVars >>

\* The 5 s wait is over: arm the watchdog and register the listeners of the
\* exit wait.
GraceDone ==
    /\ ~crashed
    /\ pc = "grace"
    /\ \E t \in Named("grace") :
        /\ Due(t)
        /\ timers' = (timers \ {t}) \cup {Timer("watchdog", timeoutMs, 0)}
    /\ listening' = TRUE
    /\ pc' = "exitWait"
    /\ UNCHANGED << closeCode, signalAt, intervalOn, now, uncaught, child, stdinEnded, inflight, menuStartTime,
                    effects, sessionVars, resolved, settled, exitCode, result, fsVars >>

(***************************************************************************)
(* The exit wait                                                           *)
(***************************************************************************)

\* claudeProcess.kill(signal): the signal is sent only while the child runs.
Kill(signal) == Effect("kill", signal, child = "running", 0)

\* WatchdogEffects with the signal sent before the input is ended.
WatchdogEffectsKillFirst ==
    << Kill("SIGTERM"),
       Effect("end", "", child = "running", 0),
       Effect("reject", "Login process timed out", TRUE, 0) >>

\* What the watchdog callback does, in order: end the input, send SIGTERM,
\* reject.
WatchdogEffects ==
    << Effect("end", "", child = "running", 0),
       Kill("SIGTERM"),
       Effect("reject", "Login process timed out", TRUE, 0) >>

\* Unresolved without the one-shot guard.
UnresolvedNoGuard == TRUE

\* if (!resolved) of the three callbacks of the exit wait.
Unresolved == ~resolved

\* The watchdog callback, and the catch and return that its reject resumes.
WatchdogFire ==
    /\ ~crashed
    /\ \E t \in Named("watchdog") :
        /\ Due(t)
        /\ IF Unresolved
           THEN /\ intervalOn' = FALSE
                /\ timers' = (timers \ {t}) \cup {Timer("sigkill", KillGraceMs, 0)}
                /\ stdinEnded' = TRUE
                /\ effects' = effects \o WatchdogEffects
                /\ signalAt' = [signalAt EXCEPT !.SIGTERM = now]
                /\ resolved' = TRUE
                /\ settled' = "rejected"
                /\ result' = << CatchResult("Login process timed out") >>
                /\ pc' = "cleanup"
           ELSE /\ timers' = timers \ {t}
                /\ UNCHANGED << intervalOn, stdinEnded, effects, signalAt,
                                resolved, settled, result, pc >>
    /\ UNCHANGED << closeCode, now, uncaught, child, inflight, menuStartTime, sessionVars,
                    listening, exitCode, fsVars >>

\* The callback of the 3 s timer set by the watchdog.
SigkillFire ==
    /\ ~crashed
    /\ \E t \in Named("sigkill") :
        /\ Due(t)
        /\ timers' = timers \ {t}
    /\ effects' = Append(effects, Kill("SIGKILL"))
    /\ signalAt' = [signalAt EXCEPT !.SIGKILL = now]
    /\ UNCHANGED << closeCode, intervalOn, pc, now, uncaught, child, stdinEnded, inflight,
                    menuStartTime, sessionVars, exitVars, fsVars >>

\* CodeOrZero that turns a missing code into 1.
CodeOrOne(code) == IF code = << >> THEN 1 ELSE code[1]

\* code || 0
CodeOrZero(code) == IF code = << >> \/ code = <<0>> THEN 0 ELSE code[1]

\* The 'close' listener of the exit wait; when it resolves, refreshTokens
\* resumes up to its next await: it starts the final check, or returns the
\* result and enters the finally block.
OnClose(code) ==
    IF Unresolved
    THEN /\ timers' = Clear(timers, "watchdog")
         /\ intervalOn' = FALSE
         /\ resolved' = TRUE
         /\ settled' = "resolved"
         /\ exitCode' = << CodeOrZero(code) >>
         /\ effects' = Append(effects, Effect("resolve", CodeOrZero(code), TRUE, 0))
         /\ IF ~urlDetected
            THEN pc' = "finalCheck" /\ UNCHANGED result
            ELSE /\ result' = << ExitResult(CodeOrZero(code), loginUrl) >>
                 /\ pc' = "cleanup"
    ELSE UNCHANGED << timers, intervalOn, resolved, settled, exitCode, effects,
                      result, pc >>

\* The child closes: 'close' is emitted once, to the listeners registered at
\* that moment.  Before the exit wait there is none and the event is lost.
ChildClose ==
    /\ ~crashed
    /\ child = "running"
    /\ child' = "closed"
    /\ \E code \in CloseCodes :
        IF listening
        THEN /\ closeCode' = << code >>
             /\ OnClose(code)
        ELSE UNCHANGED << closeCode, timers, intervalOn, resolved, settled,
                          exitCode, effects, result, pc >>
    /\ UNCHANGED << signalAt, now, uncaught, stdinEnded, inflight, menuStartTime,
                    sessionVars, listening, fsVars >>

\* The child emits 'error'.  The listener registered right after the spawn
\* runs first and rethrows: the emit is aborted there, so the 'error'
\* listener of the exit wait is never called, and the exception is uncaught.
ChildError ==
    /\ ~crashed
    /\ child = "running"
    /\ uncaught' = << "child error" >>
    /\ UNCHANGED << closeCode, signalAt, intervalOn, pc, now, timers, child, stdinEnded, inflight,
                    menuStartTime, effects, sessionVars, exitVars, fsVars >>

\* The final check has returned: latch its URL and return the result.
FinalCheckDone ==
    /\ ~crashed
    /\ pc = "finalCheck"
    /\ IF checkInterceptedUrl(fileContent) # << >>
       THEN /\ loginUrl' = checkInterceptedUrl(fileContent)[1]
            /\ urlDetected' = TRUE
            /\ fileApplied' = TRUE
       ELSE UNCHANGED << loginUrl, urlDetected, fileApplied >>
    /\ result' = << ExitResult(exitCode[1], loginUrl') >>
    /\ pc' = "cleanup"
    /\ UNCHANGED << closeCode, signalAt, intervalOn, now, timers, uncaught, child, stdinEnded, inflight,
                    menuStartTime, effects, output, errorOutput,
                    menuDisplayed, chunks, listening, resolved, settled,
                    exitCode, fsVars >>

(***************************************************************************)
(* The finally block                                                       *)
(***************************************************************************)

\* Cleanup that removes the mock scripts and leaves the intercepted-URL file.
CleanupKeepsFile ==
    /\ ~crashed
    /\ pc = "cleanup"
    /\ scriptsOnDisk' = IF mockScriptsCreated THEN FALSE ELSE scriptsOnDisk
    /\ pc' = "done"
    /\ UNCHANGED << now, timers, intervalOn, uncaught, child, closeCode,
                    stdinEnded, inflight, menuStartTime, effects, signalAt,
                    sessionVars, exitVars, mockScriptsCreated, fileContent >>

\* unlink of the mock scripts, rmdir of their directory and unlink of the
\* intercepted-URL file (errors ignored); then the caller gets the result.
Cleanup ==
    /\ ~crashed
    /\ pc = "cleanup"
    /\ scriptsOnDisk' = IF mockScriptsCreated THEN FALSE ELSE scriptsOnDisk
    /\ fileContent' = << >>
    /\ pc' = "done"
    /\ UNCHANGED << now, timers, intervalOn, uncaught, child, closeCode,
                    stdinEnded, inflight, menuStartTime, effects, signalAt,
                    sessionVars, exitVars, mockScriptsCreated >>

(***************************************************************************)
(* The child's browser-opening command                                     *)
(***************************************************************************)

\* The child runs open / xdg-open / start, which PATH resolves to a mock
\* script while the scripts exist: the script writes the URL to the file
\* (a run that leaves the file as it is changes nothing).
ChildOpensBrowser ==
    /\ ~crashed
    /\ child = "running"
    /\ scriptsOnDisk
    /\ fileContent # FileUrl
    /\ fileContent' = FileUrl
    /\ UNCHANGED << closeCode, signalAt, intervalOn, pc, now, timers, uncaught, child, stdinEnded, inflight,
                    menuStartTime, effects, sessionVars, exitVars,
                    mockScriptsCreated, scriptsOnDisk >>

(***************************************************************************)
(* Specification                                                           *)
(***************************************************************************)
Next ==
    \/ Setup
    \/ Spawn
    \/ StdoutData
    \/ StderrData
    \/ EnterFire
    \/ IntervalTick
    \/ CatReads
    \/ CheckComplete
    \/ InitWaitDone
    \/ PollWake
    \/ GraceDone
    \/ WatchdogFire
    \/ SigkillFire
    \/ ChildClose
    \/ ChildError
    \/ FinalCheckDone
    \/ Cleanup
    \/ ChildOpensBrowser
    \/ Advance

Spec == Init /\ [][Next]_vars


(***************************************************************************)
(* Another call of refreshTokens in the same machine                       *)
(***************************************************************************)

\* What the mock script leaves in /tmp/claude-intercepted-url.txt when the
\* child of another session opens "https://g.io".
OtherFileUrl == <<"h","t","t","p","s",":","/","/","g",".","i","o","\n">>

\* The setup of another session: it writes its mock scripts to the same
\* directory /tmp/claude-mock-scripts.
OtherSetup ==
    /\ ~scriptsOnDisk
    /\ scriptsOnDisk' = TRUE
    /\ UNCHANGED << pc, now, timers, intervalOn, uncaught, child, closeCode,
                    stdinEnded, inflight, menuStartTime, effects, signalAt,
                    sessionVars, exitVars, mockScriptsCreated, fileContent >>

\* The child of another session runs open / xdg-open / start: its PATH
\* starts with the same directory, and the script writes the same file.
OtherChildOpensBrowser ==
    /\ scriptsOnDisk
    /\ fileContent # OtherFileUrl
    /\ fileContent' = OtherFileUrl
    /\ UNCHANGED << pc, now, timers, intervalOn, uncaught, child, closeCode,
                    stdinEnded, inflight, menuStartTime, effects, signalAt,
                    sessionVars, exitVars, mockScriptsCreated, scriptsOnDisk >>

\* The finally block of another session: it removes the scripts, their
\* directory and the intercepted-URL file.
OtherCleanup ==
    /\ scriptsOnDisk \/ fileContent # << >>
    /\ scriptsOnDisk' = FALSE
    /\ fileContent' = << >>
    /\ UNCHANGED << pc, now, timers, intervalOn, uncaught, child, closeCode,
                    stdinEnded, inflight, menuStartTime, effects, signalAt,
                    sessionVars, exitVars, mockScriptsCreated >>

\* The session together with the file-system steps of other sessions.
SharedNext ==
    \/ Next
    \/ OtherSetup
    \/ OtherChildOpensBrowser
    \/ OtherCleanup

SharedSpec == Init /\ [][SharedNext]_vars


(***************************************************************************)
(* The stdout handler on sample texts                                      *)
(***************************************************************************)

\* Number of pieces a sample text is put together from.
MaxTokens == 3

\* "Visit: "
TokVisit == <<"V","i","s","i","t",":"," ">>

\* "https://example.com/a"
TokHttps == <<"h","t","t","p","s",":","/","/","e","x","a","m","p","l","e",".","c","o","m","/","a">>

\* "claude.ai/b"
TokClaude == <<"c","l","a","u","d","e",".","a","i","/","b">>

\* "URL:"
TokUrl == <<"U","R","L",":">>

\* "ok<"
TokPlain == <<"o","k","<">>

\* "Select login method"
TokSelect == <<"S","e","l","e","c","t"," ","l","o","g","i","n"," ","m","e","t","h","o","d">>

\* "sELECT LOGIN METHOD"
TokSelectCase == <<"s","E","L","E","C","T"," ","L","O","G","I","N"," ","M","E","T","H","O","D">>

\* The pieces without a menu indicator, and all pieces.
PlainTokens == {TokVisit, TokHttps, TokClaude, TokUrl, TokPlain, <<" ">>}
Tokens == PlainTokens \cup {TokSelect, TokSelectCase}

\* The texts put together from at most n of these pieces.
RECURSIVE TextsOf(_, _)
TextsOf(tokens, n) ==
    IF n = 0 THEN {<< >>}
    ELSE LET shorter == TextsOf(tokens, n - 1)
         IN  shorter \cup {s \o t : s \in shorter, t \in tokens}

\* The texts a chunk is drawn from (a data event carries at least one
\* character).
SampleTexts == TextsOf(Tokens, MaxTokens) \ {<< >>}

\* The state right after the spawn, with one chunk of stdout emitted and its
\* handler about to run.
HandlerInit ==
    /\ pc = "initWait"
    /\ now = 0
    /\ timers = { Timer("initWait", InitWaitMs, 0) }
    /\ intervalOn = TRUE
    /\ uncaught = << >>
    /\ child = "running"
    /\ closeCode = << >>
    /\ stdinEnded = FALSE
    /\ listening = FALSE
    /\ output = << >>
    /\ errorOutput = << >>
    /\ loginUrl = << >>
    /\ menuDisplayed = FALSE
    /\ urlDetected = FALSE
    /\ mockScriptsCreated = TRUE
    /\ scriptsOnDisk = TRUE
    /\ fileContent = << >>
    /\ inflight = << >>
    /\ menuStartTime = 0
    /\ resolved = FALSE
    /\ settled = "pending"
    /\ exitCode = << >>
    /\ result = << >>
    /\ effects = << >>
    /\ signalAt = [SIGTERM |-> -1, SIGKILL |-> -1]
    /\ chunks \in {<< [stream |-> "stdout", text |-> t] >> : t \in SampleTexts}
    /\ fileApplied = FALSE

\* claudeProcess.stdout.on("data", ...) on the emitted chunk: append the
\* text, latch the URL that extractUrl finds, latch the menu that detectMenu
\* finds and schedule the Enter key.
HandleStdout ==
    /\ output = << >>
    /\ LET text == chunks[1].text
           url == extractUrl(text)
       IN  /\ output' = output \o text
           /\ IF UrlGuard(url)
              THEN loginUrl' = url[1] /\ urlDetected' = TRUE
              ELSE UNCHANGED << loginUrl, urlDetected >>
           /\ IF detectMenu(text) /\ ~menuDisplayed
              THEN /\ menuDisplayed' = TRUE
                   /\ timers' = timers \cup {Timer("enter", EnterDelayMs, 1)}
              ELSE UNCHANGED << menuDisplayed, timers >>
    /\ UNCHANGED << closeCode, signalAt, intervalOn, pc, now, uncaught, child,
                    stdinEnded, inflight, menuStartTime, effects, errorOutput,
                    chunks, fileApplied, exitVars, fsVars >>

HandlerSpec == HandlerInit /\ [][HandleStdout]_vars


(***************************************************************************)
(* The stdout handler on a text that arrives in several chunks             *)
(***************************************************************************)

\* The texts the child writes: put together from at most MaxChunks pieces.
ChunkedTexts == TextsOf(Tokens, MaxChunks) \ {<< >>}

\* The ways the pipe can hand a text over: in at most n chunks of at least
\* one character, cut at any place.
RECURSIVE Chunkings(_, _)
Chunkings(text, n) ==
    IF text = << >> THEN {<< >>}
    ELSE IF n = 0 THEN {}
    ELSE UNION { { << SubSeq(text, 1, k) >> \o rest :
                     rest \in Chunkings(SubSeq(text, k + 1, Len(text)), n - 1) } :
                 k \in 1..Len(text) }

\* The chunks after the first ones that make up n characters.
RECURSIVE SkipChars(_, _)
SkipChars(cs, n) ==
    IF n = 0 THEN cs ELSE SkipChars(Tail(cs), n - Len(Head(cs).text))

\* The chunks emitted whose data event is still to be handled.
Pending == SkipChars(chunks, Len(output))

\* The state right after the spawn, with the chunks of one text emitted and
\* no data event handled yet.
ChunkingInit ==
    /\ pc = "initWait"
    /\ now = 0
    /\ timers = { Timer("initWait", InitWaitMs, 0) }
    /\ intervalOn = TRUE
    /\ uncaught = << >>
    /\ child = "running"
    /\ closeCode = << >>
    /\ stdinEnded = FALSE
    /\ listening = FALSE
    /\ output = << >>
    /\ errorOutput = << >>
    /\ loginUrl = << >>
    /\ menuDisplayed = FALSE
    /\ urlDetected = FALSE
    /\ mockScriptsCreated = TRUE
    /\ scriptsOnDisk = TRUE
    /\ fileContent = << >>
    /\ inflight = << >>
    /\ menuStartTime = 0
    /\ resolved = FALSE
    /\ settled = "pending"
    /\ exitCode = << >>
    /\ result = << >>
    /\ effects = << >>
    /\ signalAt = [SIGTERM |-> -1, SIGKILL |-> -1]
    /\ \E t \in ChunkedTexts : \E c \in Chunkings(t, MaxChunks) :
          chunks = [i \in 1..Len(c) |-> [stream |-> "stdout", text |-> c[i]]]
    /\ fileApplied = FALSE

\* claudeProcess.stdout.on("data", ...) on the next chunk: append the text,
\* latch the URL that extractUrl finds in the chunk, latch the menu that
\* detectMenu finds in the chunk and schedule the Enter key.
HandleChunk ==
    /\ Pending # << >>
    /\ LET text == Head(Pending).text
           url == extractUrl(text)
       IN  /\ output' = output \o text
           /\ IF UrlGuard(url)
              THEN loginUrl' = url[1] /\ urlDetected' = TRUE
              ELSE UNCHANGED << loginUrl, urlDetected >>
           /\ IF detectMenu(text) /\ ~menuDisplayed
              THEN /\ menuDisplayed' = TRUE
                   /\ timers' = timers \cup {Timer("enter", EnterDelayMs, 1)}
              ELSE UNCHANGED << menuDisplayed, timers >>
    /\ UNCHANGED << closeCode, signalAt, intervalOn, pc, now, uncaught, child,
                    stdinEnded, inflight, menuStartTime, effects, errorOutput,
                    chunks, fileApplied, exitVars, fsVars >>

ChunkingSpec == ChunkingInit /\ [][HandleChunk]_vars


(***************************************************************************)
(* The finally block with failing unlinks                                  *)
(***************************************************************************)

\* The directory of the mock scripts and the intercepted-URL file.
tempDir == "/tmp/claude-mock-scripts"
interceptedUrlFile == "/tmp/claude-intercepted-url.txt"

\* The finally block when unlink rejects for the mock scripts, for the
\* intercepted-URL file or for both: .catch(() => { }) drops the error, what
\* could not be unlinked stays, and the caller gets the result.
CleanupFails ==
    /\ ~crashed
    /\ pc = "cleanup"
    /\ \E keepScripts, keepFile \in BOOLEAN :
        /\ keepScripts \/ keepFile
        /\ keepScripts => mockScriptsCreated /\ scriptsOnDisk
        /\ keepFile => fileContent # << >>
        /\ scriptsOnDisk' = IF mockScriptsCreated /\ ~keepScripts
                            THEN FALSE ELSE scriptsOnDisk
        /\ fileContent' = IF keepFile THEN fileContent ELSE << >>
        /\ effects' = effects
              \o (IF keepScripts THEN << Effect("unlink", tempDir, FALSE, 0) >> ELSE << >>)
              \o (IF keepFile THEN << Effect("unlink", interceptedUrlFile, FALSE, 0) >> ELSE << >>)
    /\ pc' = "done"
    /\ UNCHANGED << now, timers, intervalOn, uncaught, child, closeCode,
                    stdinEnded, inflight, menuStartTime, signalAt,
                    sessionVars, exitVars, mockScriptsCreated >>

CleanupNext ==
    \/ Next
    \/ CleanupFails

CleanupSpec == Init /\ [][CleanupNext]_vars


(***************************************************************************)
(* The module run as an entry point                                        *)
(***************************************************************************)

\* The Node process has ended: pc is "exit0" or "exit1", after the code.
exited == pc \in {"exit0", "exit1"}

\* EntryThen that exits with code 0 whatever the result.
EntryThenAlwaysZero ==
    /\ pc = "done"
    /\ ~crashed
    /\ pc' = "exit0"
    /\ UNCHANGED << now, timers, intervalOn, uncaught, child, closeCode,
                    stdinEnded, inflight, menuStartTime, effects, signalAt,
                    sessionVars, exitVars, fsVars >>

\* refreshTokens().then(...): process.exit(0) when result.success, else
\* process.exit(1).  The callback runs as soon as refreshTokens has returned.
EntryThen ==
    /\ pc = "done"
    /\ ~crashed
    /\ pc' = IF result[1].success THEN "exit0" ELSE "exit1"
    /\ UNCHANGED << now, timers, intervalOn, uncaught, child, closeCode,
                    stdinEnded, inflight, menuStartTime, effects, signalAt,
                    sessionVars, exitVars, fsVars >>

\* An uncaught exception ends the Node process with code 1.
EntryUncaught ==
    /\ crashed
    /\ ~exited
    /\ pc' = "exit1"
    /\ UNCHANGED << now, timers, intervalOn, uncaught, child, closeCode,
                    stdinEnded, inflight, menuStartTime, effects, signalAt,
                    sessionVars, exitVars, fsVars >>

\* The session run from the entry point: nothing of the driver runs between
\* the return of refreshTokens and the callback of then, or after the exit.
EntryNext ==
    \/ pc # "done" /\ ~exited /\ Next
    \/ EntryThen
    \/ EntryUncaught

EntrySpec == Init /\ [][EntryNext]_vars


(***************************************************************************)
(* The driver without URL interception and menu detection                  *)
(* (src/unnamed/part_000)                                                  *)
(***************************************************************************)

\* The waits after the login command and before the end of the input.
SimpleResponseMs == 3000
SimpleUrlWaitMs == 2000

\* extractUrl of this driver: the leftmost match of https?:\/\/[^...]+ .
SimpleExtractUrl(text) == FirstMatch(1, text)

\* SimpleExtractUrl on the chunk texts, evaluated once.
SimpleUrlOf == [text \in ChunkTexts |-> SimpleExtractUrl(text)]

\* The state at the call: this driver has no setup.
SimpleInit ==
    /\ pc = "spawn"
    /\ now = 0
    /\ timers = {}
    /\ intervalOn = FALSE
    /\ uncaught = << >>
    /\ child = "none"
    /\ closeCode = << >>
    /\ stdinEnded = FALSE
    /\ listening = FALSE
    /\ output = << >>
    /\ errorOutput = << >>
    /\ loginUrl = << >>
    /\ menuDisplayed = FALSE
    /\ urlDetected = FALSE
    /\ mockScriptsCreated = FALSE
    /\ scriptsOnDisk = FALSE
    /\ fileContent = << >>
    /\ inflight = << >>
    /\ menuStartTime = 0
    /\ resolved = FALSE
    /\ settled = "pending"
    /\ exitCode = << >>
    /\ result = << >>
    /\ effects = << >>
    /\ signalAt = [SIGTERM |-> -1, SIGKILL |-> -1]
    /\ chunks = << >>
    /\ fileApplied = FALSE

\* spawn("claude", ...) and the registrations up to the first await; the
\* outcomes are those of Spawn.
SimpleSpawn ==
    /\ pc = "spawn"
    /\ ~crashed
    /\ \/ /\ child' = "running"
          /\ timers' = { Timer("initWait", InitWaitMs, 0) }
          /\ pc' = "initWait"
          /\ UNCHANGED << uncaught, result >>
       \/ /\ result' = << CatchResult("spawn claude EINVAL") >>
          /\ pc' = "done"
          /\ UNCHANGED << child, timers, uncaught >>
       \/ /\ child' = "failed"
          /\ timers' = { Timer("initWait", InitWaitMs, 0) }
          /\ pc' = "initWait"
          /\ uncaught' = << "spawn claude ENOENT" >>
          /\ UNCHANGED result
    /\ UNCHANGED << closeCode, signalAt, now, intervalOn, stdinEnded, inflight,
                    menuStartTime, effects, sessionVars, listening, resolved,
                    settled, exitCode, fsVars >>

\* claudeProcess.stdout.on("data", ...): if (url) loginUrl = url.
SimpleStdoutData ==
    /\ ~crashed
    /\ child = "running"
    /\ Len(chunks) < MaxChunks
    /\ \E text \in StdoutTexts :
        /\ output' = output \o text
        /\ loginUrl' = IF SimpleUrlOf[text] # << >>
                       THEN SimpleUrlOf[text][1]
                       ELSE loginUrl
        /\ chunks' = Append(chunks, [stream |-> "stdout", text |-> text])
    /\ UNCHANGED << closeCode, signalAt, intervalOn, pc, now, timers, uncaught,
                    child, stdinEnded, inflight, menuStartTime, effects,
                    errorOutput, menuDisplayed, urlDetected, fileApplied,
                    exitVars, fsVars >>

\* claudeProcess.stderr.on("data", ...): if (url && !loginUrl) loginUrl = url.
SimpleStderrData ==
    /\ ~crashed
    /\ child = "running"
    /\ Len(chunks) < MaxChunks
    /\ \E text \in StderrTexts :
        /\ errorOutput' = errorOutput \o text
        /\ loginUrl' = IF SimpleUrlOf[text] # << >> /\ loginUrl = << >>
                       THEN SimpleUrlOf[text][1]
                       ELSE loginUrl
        /\ chunks' = Append(chunks, [stream |-> "stderr", text |-> text])
    /\ UNCHANGED << closeCode, signalAt, intervalOn, pc, now, timers, uncaught,
                    child, stdinEnded, inflight, menuStartTime, effects,
                    output, menuDisplayed, urlDetected, fileApplied,
                    exitVars, fsVars >>

\* The 1000 ms wait is over: write the login command, wait 3000 ms.
SimpleInitWaitDone ==
    /\ ~crashed
    /\ pc = "initWait"
    /\ \E t \in Named("initWait") :
        /\ Due(t)
        /\ timers' = (timers \ {t}) \cup {Timer("responseWait", SimpleResponseMs, 0)}
    /\ Write(<<"/","l","o","g","i","n","\n">>, 0)
    /\ pc' = "responseWait"
    /\ UNCHANGED << closeCode, signalAt, intervalOn, now, child, stdinEnded,
                    inflight, menuStartTime, sessionVars, exitVars, fsVars >>

\* if (output.includes("Press Enter") || output.includes("continue"))
SimpleWantsEnter ==
    \/ includes(output, <<"P","r","e","s","s"," ","E","n","t","e","r">>)
    \/ includes(output, <<"c","o","n","t","i","n","u","e">>)

\* SimpleResponseWaitDone that writes the newline whatever the output holds.
SimpleResponseWaitDoneAlways ==
    /\ ~crashed
    /\ pc = "responseWait"
    /\ \E t \in Named("responseWait") :
        /\ Due(t)
        /\ timers' = (timers \ {t}) \cup {Timer("urlWait", SimpleUrlWaitMs, 0)}
    /\ Write(<<"\n">>, 0)
    /\ pc' = "urlWait"
    /\ UNCHANGED << closeCode, signalAt, intervalOn, now, child, stdinEnded,
                    inflight, menuStartTime, sessionVars, exitVars, fsVars >>

\* The 3000 ms wait is over: write a newline when the output asks for it,
\* wait 2000 ms.
SimpleResponseWaitDone ==
    /\ ~crashed
    /\ pc = "responseWait"
    /\ \E t \in Named("responseWait") :
        /\ Due(t)
        /\ timers' = (timers \ {t}) \cup {Timer("urlWait", SimpleUrlWaitMs, 0)}
    /\ IF SimpleWantsEnter
       THEN Write(<<"\n">>, 0)
       ELSE UNCHANGED << effects, uncaught >>
    /\ pc' = "urlWait"
    /\ UNCHANGED << closeCode, signalAt, intervalOn, now, child, stdinEnded,
                    inflight, menuStartTime, sessionVars, exitVars, fsVars >>

\* The 2000 ms wait is over: end the input, arm the watchdog and register
\* the listeners of the exit wait.
SimpleUrlWaitDone ==
    /\ ~crashed
    /\ pc = "urlWait"
    /\ \E t \in Named("urlWait") :
        /\ Due(t)
        /\ timers' = (timers \ {t}) \cup {Timer("watchdog", timeoutMs, 0)}
    /\ stdinEnded' = TRUE
    /\ effects' = Append(effects, Effect("end", "", child = "running", 0))
    /\ listening' = TRUE
    /\ pc' = "exitWait"
    /\ UNCHANGED << closeCode, signalAt, intervalOn, now, uncaught, child,
                    inflight, menuStartTime, sessionVars, resolved, settled,
                    exitCode, result, fsVars >>

\* The watchdog callback of this driver (SIGTERM, SIGKILL timer, reject),
\* and the catch and return that its reject resumes.
SimpleWatchdogFire ==
    /\ ~crashed
    /\ \E t \in Named("watchdog") :
        /\ Due(t)
        /\ IF Unresolved
           THEN /\ timers' = (timers \ {t}) \cup {Timer("sigkill", KillGraceMs, 0)}
                /\ effects' = effects \o
                       << Kill("SIGTERM"),
                          Effect("reject", "Login process timed out", TRUE, 0) >>
                /\ signalAt' = [signalAt EXCEPT !.SIGTERM = now]
                /\ resolved' = TRUE
                /\ settled' = "rejected"
                /\ result' = << CatchResult("Login process timed out") >>
                /\ pc' = "done"
           ELSE /\ timers' = timers \ {t}
                /\ UNCHANGED << effects, signalAt, resolved, settled, result, pc >>
    /\ UNCHANGED << closeCode, intervalOn, now, uncaught, child, stdinEnded,
                    inflight, menuStartTime, sessionVars, listening, exitCode,
                    fsVars >>

\* The child closes; the 'close' listener of the exit wait, when it is
\* registered and resolves, resumes refreshTokens up to its return.
SimpleChildClose ==
    /\ ~crashed
    /\ child = "running"
    /\ child' = "closed"
    /\ \E code \in CloseCodes :
        IF listening
        THEN /\ closeCode' = << code >>
             /\ IF Unresolved
                THEN /\ timers' = Clear(timers, "watchdog")
                     /\ resolved' = TRUE
                     /\ settled' = "resolved"
                     /\ exitCode' = << CodeOrZero(code) >>
                     /\ effects' = Append(effects,
                                       Effect("resolve", CodeOrZero(code), TRUE, 0))
                     /\ result' = << ExitResult(CodeOrZero(code), loginUrl) >>
                     /\ pc' = "done"
                ELSE UNCHANGED << timers, resolved, settled, exitCode, effects,
                                  result, pc >>
        ELSE UNCHANGED << closeCode, timers, resolved, settled, exitCode,
                          effects, result, pc >>
    /\ UNCHANGED << signalAt, intervalOn, now, uncaught, stdinEnded, inflight,
                    menuStartTime, sessionVars, listening, fsVars >>

SimpleNext ==
    \/ SimpleSpawn
    \/ SimpleStdoutData
    \/ SimpleStderrData
    \/ SimpleInitWaitDone
    \/ SimpleResponseWaitDone
    \/ SimpleUrlWaitDone
    \/ SimpleWatchdogFire
    \/ SigkillFire
    \/ SimpleChildClose
    \/ ChildError
    \/ Advance

SimpleSpec == SimpleInit /\ [][SimpleNext]_vars


(***************************************************************************)
(* Observations used by the properties                                     *)
(***************************************************************************)

\* The positions in the effects log of the writes of a bare newline.
EnterWrites ==
    {i \in DOMAIN effects : effects[i].op = "write" /\ effects[i].arg = <<"\n">>}

\* The positions in the effects log of the calls of kill with this signal.
Kills(signal) ==
    {i \in DOMAIN effects : effects[i].op = "kill" /\ effects[i].arg = signal}

\* The positions in the effects log where the exit wait was settled.
Settles == {i \in DOMAIN effects : effects[i].op \in {"resolve", "reject"}}

\* The chunks on which detectMenu is true, and the first of them (0 if none).
MenuChunks == {i \in DOMAIN chunks : MenuOf[chunks[i].text]}
FirstMenuChunk ==
    IF MenuChunks = {} THEN 0
    ELSE CHOOSE i \in MenuChunks : \A k \in MenuChunks : i <= k

\* The chunks in which extractUrl finds a URL, and the URL of the first of
\* them ("" if none).
UrlChunks == {i \in DOMAIN chunks : UrlOf[chunks[i].text] # << >>}
FirstChunkUrl ==
    IF UrlChunks = {} THEN << >>
    ELSE UrlOf[chunks[CHOOSE i \in UrlChunks : \A k \in UrlChunks : i <= k].text][1]

\* The texts of the first n chunks that came on this stream, concatenated.
RECURSIVE Received(_, _)
Received(stream, n) ==
    IF n = 0 THEN << >>
    ELSE IF chunks[n].stream = stream
         THEN Received(stream, n - 1) \o chunks[n].text
         ELSE Received(stream, n - 1)

(***************************************************************************)
(* Properties                                                              *)
(***************************************************************************)

\* C1: the bare newline is written to the child's input at most once per
\* session (counting a write that is still scheduled), and only by the timer
\* that the first chunk on which detectMenu is true has set.
C1_EnterAtMostOnce ==
    /\ Cardinality(EnterWrites) + Cardinality(Named("enter")) <= 1
    /\ \A i \in EnterWrites :
        FirstMenuChunk # 0 /\ effects[i].cause = FirstMenuChunk
    /\ \A t \in Named("enter") :
        FirstMenuChunk # 0 /\ t.cause = FirstMenuChunk

\* C1 witness: two menu chunks have arrived and one newline has reached the
\* child.
C1_Witness ==
    /\ Cardinality(MenuChunks) >= 2
    /\ \E i \in EnterWrites : effects[i].ok

\* C2: the exit wait is settled at most once, by a resolve or by a reject,
\* and its outcome stays what the one settlement made it, whatever event
\* comes later.
C2_SettledOnce ==
    /\ Cardinality(Settles) <= 1
    /\ resolved <=> Settles # {}
    /\ settled = "pending" <=> Settles = {}
    /\ \A i \in Settles :
        IF effects[i].op = "resolve"
        THEN settled = "resolved" /\ exitCode = << effects[i].arg >>
        ELSE settled = "rejected" /\ exitCode = << >>

\* C2 witness: the watchdog has rejected, and afterwards the 'close' listener
\* has run.
C2_Witness ==
    /\ settled = "rejected"
    /\ closeCode # << >>

\* C3: no error of the child escapes refreshTokens as a thrown value: a spawn
\* failure or an 'error' event never ends as an uncaught exception.
C3_ErrorsBecomeResults ==
    uncaught \notin {<< "spawn claude ENOENT" >>, << "child error" >>}

\* C4: the result of a timeout contains the output captured so far and the
\* latched loginUrl.
C4_TimeoutKeepsOutput ==
    (settled = "rejected" /\ result # << >>) =>
        /\ result[1].output # << >>
        /\ result[1].errorOutput # << >>
        /\ result[1].loginUrl # << >>

\* The child has closed before the watchdog expired, and with code 0 if its
\* code was seen at all (a close that no listener saw is a close with any
\* code, 0 included).
ClosedWithZero ==
    /\ child = "closed"
    /\ \/ closeCode = << >>
       \/ closeCode = << <<0>> >> /\ settled = "resolved"

\* C5: when the child has emitted a menu chunk and then closed with code 0,
\* the caller gets success=true and exactly one newline is written (or still
\* scheduled).
C5_MenuThenCloseZero ==
    (delivered /\ MenuChunks # {} /\ ClosedWithZero) =>
        /\ result[1].success
        /\ Cardinality(EnterWrites) + Cardinality(Named("enter")) = 1

\* C6: once a login URL is latched nothing changes it.
C6_FirstMatchWins == [][urlDetected => loginUrl' = loginUrl]_vars

\* C7: once a chunk has latched the login URL, loginUrl is and stays the URL
\* of the first chunk, in arrival order on either stream, in which extractUrl
\* finds one, whatever comes later.
C7_FirstChunkUrl ==
    [][(urlDetected /\ ~fileApplied) => loginUrl' = FirstChunkUrl']_vars

\* C8: a result returned after the exit wait resolved has success exactly
\* when the exit code is 0, and carries, whatever the code, all of stdout,
\* all of stderr and the login URL.
C8_ExitCodeDecides ==
    (settled = "resolved" /\ result # << >>) =>
        /\ result[1].success <=> exitCode = <<0>>
        /\ result[1].output = << Received("stdout", Len(chunks)) >>
        /\ result[1].errorOutput = << Received("stderr", Len(chunks)) >>
        /\ result[1].loginUrl \in {<< loginUrl >>, << FirstChunkUrl >>}
        /\ result[1].error = << >>

\* C8 witness: a nonzero exit code, with output and a login URL captured.
C8_Witness ==
    /\ settled = "resolved"
    /\ result # << >>
    /\ exitCode = <<1>>
    /\ output # << >>
    /\ loginUrl # << >>

\* C9: a result built by the catch block (an exception in the setup, in the
\* spawn, or the rejection of the exit wait) has success=false and an error
\* message, and has no output, errorOutput or loginUrl field.
C9_ExceptionResult ==
    (result # << >> /\ settled # "resolved") =>
        /\ ~result[1].success
        /\ result[1].error # << >>
        /\ result[1].output = << >>
        /\ result[1].errorOutput = << >>
        /\ result[1].loginUrl = << >>

\* C9 witness: the exit wait was rejected after output and a login URL had
\* been captured.
C9_Witness ==
    /\ settled = "rejected"
    /\ result # << >>
    /\ output # << >>
    /\ loginUrl # << >>

\* What holds of the watchdog's effects in every state: a timeout has ended
\* the input, then called kill with SIGTERM, then rejected with the timeout
\* error, one right after the other; SIGKILL comes after SIGTERM and
\* KillGraceMs later.
WatchdogOrder ==
    /\ settled = "rejected" <=> signalAt.SIGTERM >= 0
    /\ settled = "rejected" =>
        /\ stdinEnded
        /\ result # << >> /\ result[1].error = << "Login process timed out" >>
        /\ \E i \in DOMAIN effects :
            /\ i + 2 <= Len(effects)
            /\ effects[i].op = "end"
            /\ i + 1 \in Kills("SIGTERM")
            /\ effects[i + 2].op = "reject"
            /\ effects[i + 2].arg = "Login process timed out"
    /\ Cardinality(Kills("SIGTERM")) <= 1
    /\ Cardinality(Kills("SIGKILL")) <= 1
    /\ \A j \in Kills("SIGKILL") :
        /\ \E i \in Kills("SIGTERM") : i < j
        /\ signalAt.SIGKILL = signalAt.SIGTERM + KillGraceMs
    /\ \A t \in Named("sigkill") : t.at = signalAt.SIGTERM + KillGraceMs

\* C10: on watchdog expiry the driver ends the child's input, sends SIGTERM
\* and rejects with 'Login process timed out', in this order; SIGKILL is
\* called 3 s after SIGTERM, never before it, and reaches the child only if
\* the child is still running then.
C10_WatchdogSequence ==
    [][ /\ WatchdogOrder'
        /\ signalAt'.SIGKILL # signalAt.SIGKILL =>
              (effects'[Len(effects')].ok <=> child = "running") ]_vars

\* C10 witness: SIGKILL has reached a child that was still running.
C10_Witness == \E j \in Kills("SIGKILL") : effects[j].ok


\* C11: when the 'close' event or an 'error' event of the child was handled
\* while the exit wait was pending, no watchdog timer is pending any more,
\* and the driver has not ended the child's input, has sent no signal and
\* has reported no timeout.
C11_WatchdogCleared ==
    (\/ settled = "resolved"
     \/ uncaught = << "child error" >> /\ settled = "pending")
    => /\ Named("watchdog") = {}
       /\ Named("sigkill") = {}
       /\ ~stdinEnded
       /\ signalAt.SIGTERM = -1 /\ signalAt.SIGKILL = -1
       /\ \A i \in DOMAIN effects : effects[i].op \notin {"end", "kill", "reject"}

\* C12: a session that has not given its caller a result can still take a
\* step: no call of refreshTokens stops without a result.
C12_ResultProduced == delivered \/ ENABLED Next


\* The session is under way: the child was launched and the exit wait has
\* not been settled.
SessionRunning == child # "none" /\ settled = "pending" /\ ~crashed

\* C13 as stated: measured from the launch of the child, no session is under
\* way for longer than the watchdog duration.
C13_Within120 == SessionRunning => now <= timeoutMs

\* C13: the watchdog bounds the exit wait and with it the session.  It is
\* armed when the exit wait starts, which is 1000 ms + 500..10000 ms of menu
\* poll + 5000 ms after the launch, and expires 120000 ms later: no session
\* is under way for longer than 136000 ms, and a timeout is never reported
\* before 126500 ms.
C13_SessionBounded ==
    /\ SessionRunning => now <= 136000
    /\ \A t \in Named("watchdog") : t.at >= 126500 /\ t.at <= 136000
    /\ settled = "rejected" =>
          signalAt.SIGTERM >= 126500 /\ signalAt.SIGTERM <= 136000

\* C13 witness: the watchdog has ended a session 136000 ms after the launch.
C13_Witness == settled = "rejected" /\ signalAt.SIGTERM = 136000


\* C14: menuDisplayed and urlDetected only go from false to true: no step
\* of a handler, of a timer callback or of refreshTokens resets one of them.
C14_FlagsMonotonic ==
    [][ /\ menuDisplayed => menuDisplayed'
        /\ urlDetected => urlDetected' ]_vars

\* C14 witness: both flags are set, the second chunk showed no menu, and
\* the session has run to its end.
C14_Witness ==
    /\ menuDisplayed /\ urlDetected
    /\ Len(chunks) = 2 /\ ~MenuOf[chunks[2].text]
    /\ delivered


\* The positions in the effects log of the writes of the login command.
LoginWrites ==
    {i \in DOMAIN effects :
        effects[i].op = "write" /\ effects[i].arg = <<"/","l","o","g","i","n","\n">>}

\* C15: the login command is written at most once and not before the
\* initial wait is over, and a bare newline is written only after it.
C15_WriteOrder ==
    /\ Cardinality(LoginWrites) <= 1
    /\ LoginWrites # {} => now >= InitWaitMs
    /\ \A i \in EnterWrites : \E j \in LoginWrites : j < i


\* C16: when the 'close' event settles the exit wait, the wait resolves with
\* the code the event reports, and with 0 when it reports none; the result
\* of a close without a code is then the result of a close with code 0:
\* success, with the captured output, error output and login URL.
C16_CodeOrZero ==
    (settled = "resolved") =>
        /\ closeCode # << >>
        /\ exitCode = << IF closeCode[1] = << >> THEN 0 ELSE closeCode[1][1] >>
        /\ result # << >> =>
              /\ result[1].success <=> closeCode[1] \in {<< >>, <<0>>}
              /\ result[1].output = << Received("stdout", Len(chunks)) >>
              /\ result[1].errorOutput = << Received("stderr", Len(chunks)) >>
              /\ result[1].loginUrl # << >>
              /\ result[1].error = << >>

\* C16 witness: a close without a code has given a result with success.
C16_Witness ==
    /\ settled = "resolved"
    /\ closeCode = << << >> >>
    /\ result # << >> /\ result[1].success


\* The login URLs this session's own child has produced: the URLs of its
\* chunks and the URL its browser-opening command writes to the file.
OwnUrls == {UrlOf[chunks[i].text][1] : i \in UrlChunks} \cup {trim(FileUrl)}

\* C17: the login URL of a session, and the one in its result, come from
\* its own child whatever other sessions do: they are never the URL that
\* another session's child has written.
C17_SessionsShareNothing ==
    /\ loginUrl = << >> \/ loginUrl \in OwnUrls
    /\ \A r \in {result[i] : i \in DOMAIN result} :
          \A u \in {r.loginUrl[i] : i \in DOMAIN r.loginUrl} :
              u = << >> \/ u \in OwnUrls


\* The beginnings of a URL that the patterns of extractUrl know.
UrlStarts ==
    { <<"h","t","t","p","s",":","/","/">>,
      <<"h","t","t","p",":","/","/">>,
      <<"c","l","a","u","d","e",".","a","i","/">>,
      <<"a","n","t","h","r","o","p","i","c",".","c","o","m","/">> }

\* A URL starts at position i of t: one of the beginnings followed by at
\* least one URL character.
UrlAt(t, i) ==
    \E lit \in UrlStarts :
        /\ StartsWithAt(t, i, lit)
        /\ i + Len(lit) <= Len(t)
        /\ UrlChar(t[i + Len(lit)])

\* The handler has run on the emitted chunk.
Handled == Len(chunks) = 1 /\ output = chunks[1].text

\* C18: after the handler has run on a text, a URL is latched exactly when
\* the text contains one; the latched URL is then a piece of the text that
\* begins where a URL begins, runs to the first character that cannot be
\* part of a URL, and carries no Visit: / Open: / URL: prefix.  The text
\* "Visit: https://example.com/a" gives "https://example.com/a".
C18_ExtractUrl ==
    Handled =>
        LET t == chunks[1].text
        IN  /\ urlDetected <=> \E i \in 1..Len(t) : UrlAt(t, i)
            /\ ~urlDetected => loginUrl = << >>
            /\ urlDetected =>
                  /\ \E i \in 1..Len(t) :
                        /\ UrlAt(t, i)
                        /\ i + Len(loginUrl) - 1 <= Len(t)
                        /\ loginUrl = SubSeq(t, i, i + Len(loginUrl) - 1)
                        /\ \/ i + Len(loginUrl) - 1 = Len(t)
                           \/ ~UrlChar(t[i + Len(loginUrl)])
                  /\ \A k \in 1..Len(loginUrl) : UrlChar(loginUrl[k])
                  /\ \A prefix \in {<<"v","i","s","i","t",":">>,
                                    <<"o","p","e","n",":">>,
                                    <<"u","r","l",":">>} :
                        ~startsWith(toLowerCase(loginUrl), prefix)
            /\ t = TokVisit \o TokHttps => loginUrl = TokHttps

\* C18 witness: the handler has run on "Visit: https://example.com/a".
C18_Witness ==
    /\ Handled
    /\ chunks[1].text = TokVisit \o TokHttps
    /\ urlDetected

\* C19: after the handler has run on a text, the menu flag is set when the
\* text contains "select login method" in any letter case, and is not set
\* when the text is put together from pieces without a menu indicator.
C19_DetectMenu ==
    Handled =>
        LET t == chunks[1].text
        IN  /\ includes(toLowerCase(t), toLowerCase(TokSelect)) => menuDisplayed
            /\ t \in TextsOf(PlainTokens, MaxTokens) => ~menuDisplayed
            /\ menuDisplayed <=> Named("enter") # {}

\* C19 witness: the handler has run on a text that has "sELECT LOGIN METHOD"
\* in it and not "Select login method".
C19_Witness ==
    /\ Handled
    /\ includes(chunks[1].text, TokSelectCase)
    /\ ~includes(chunks[1].text, TokSelect)
    /\ menuDisplayed


\* C20: output is the texts of the stdout chunks received so far, and
\* errorOutput the texts of the stderr chunks received so far, each
\* concatenated in arrival order.
C20_BuffersAreChunks ==
    /\ output = Received("stdout", Len(chunks))
    /\ errorOutput = Received("stderr", Len(chunks))

\* C20 witness: a chunk has come on each stream, stderr first.
C20_Witness ==
    /\ Len(chunks) = 2
    /\ chunks[1].stream = "stderr"
    /\ chunks[2].stream = "stdout"
    /\ output # << >> /\ errorOutput # << >>


\* C21: the process exits with code 0 only when refreshTokens has returned
\* a result with success, and with code 1 when the result has no success or
\* the process died of an uncaught exception; a returned result with success
\* never ends in code 1.
C21_EntryExitCode ==
    /\ pc = "exit0" => ~crashed /\ result # << >> /\ result[1].success
    /\ pc = "exit1" => crashed \/ (result # << >> /\ ~result[1].success)

\* C21 witness: the process has exited with code 0 after a close with code 0.
C21_Witness == pc = "exit0" /\ closeCode = << <<0>> >>


\* The chunks in which SimpleExtractUrl finds a URL, and the URL of the
\* first of them ("" if none).
SimpleUrlChunks == {i \in DOMAIN chunks : SimpleUrlOf[chunks[i].text] # << >>}
SimpleFirstChunkUrl ==
    IF SimpleUrlChunks = {} THEN << >>
    ELSE SimpleUrlOf[chunks[CHOOSE i \in SimpleUrlChunks :
                                \A k \in SimpleUrlChunks : i <= k].text][1]

\* C22: in the driver without URL interception, loginUrl is the URL of the
\* first chunk, in arrival order on either stream, in which a URL is found.
C22_SimpleFirstUrl == loginUrl = SimpleFirstChunkUrl

\* The positions in the effects log where the input was ended.
Ends == {i \in DOMAIN effects : effects[i].op = "end"}

\* The positions in the effects log of the writes to the input.
Writes == {i \in DOMAIN effects : effects[i].op = "write"}

\* C27: in the driver without URL interception the input sees the login
\* command once, then at most one newline, then its end.  The login command
\* is written when the 1000 ms are over; the newline 3000 ms later and only
\* when the stdout text then holds "Press Enter" or "continue"; the input is
\* ended before the watchdog is armed, and nothing is written after the end.
C27_SimpleInputOrder ==
    /\ Cardinality(LoginWrites) <= 1
    /\ Cardinality(EnterWrites) <= 1
    /\ Cardinality(Ends) <= 1
    /\ Writes = LoginWrites \cup EnterWrites
    /\ LoginWrites # {} => now >= InitWaitMs
    /\ \A i \in EnterWrites :
          /\ \E j \in LoginWrites : j < i
          /\ SimpleWantsEnter
          /\ now >= InitWaitMs + SimpleResponseMs
    /\ \A e \in Ends :
          /\ LoginWrites # {}
          /\ \A w \in Writes : w < e
    /\ (Named("watchdog") # {} \/ listening \/ settled # "pending") => Ends # {}
    /\ stdinEnded <=> Ends # {}

\* C27 witness: the login command, a newline and the end of the input have
\* all reached the child, and the watchdog is armed.
C27_Witness ==
    /\ \E i \in LoginWrites : effects[i].ok
    /\ \E i \in EnterWrites : effects[i].ok
    /\ \E i \in Ends : effects[i].ok
    /\ Named("watchdog") # {}


\* C23: the menu poll ends in the grace period, with or without a menu, and
\* its end writes nothing and sets no result.  While no menu was detected no
\* newline is written or scheduled; the first chunk with a menu, whenever
\* it comes, schedules one newline 500 ms ahead, and a scheduled newline
\* goes away only by being written.
C23_MenuPollNotAnError ==
    [][ /\ (pc = "poll" /\ pc' # "poll") =>
              /\ pc' = "grace"
              /\ result' = result /\ effects' = effects /\ uncaught' = uncaught
        /\ ~menuDisplayed' => (EnterWrites' = {} /\ Named("enter")' = {})
        /\ (~menuDisplayed /\ menuDisplayed') =>
              \E t \in timers' :
                  /\ t.name = "enter" /\ t.at = now + EnterDelayMs
                  /\ Named("enter")' = {t}
        /\ (Named("enter") # {} /\ Named("enter")' = {}) =>
              Cardinality(EnterWrites') = 1 ]_vars

\* C23 witness: the poll ran its 10 s without a menu, a menu came in the
\* exit wait at 16000 ms, and its newline was written at 16500 ms.
C23_Witness ==
    /\ pc = "exitWait"
    /\ \E t \in Named("watchdog") : t.at = 136000
    /\ now = 16500
    /\ EnterWrites # {} /\ Named("enter") = {}


\* C24: once refreshTokens has returned its Result the interval is no longer
\* scheduled, and a check of the interval that returns afterwards leaves
\* loginUrl and urlDetected as they were.
C24_IntervalStopped ==
    [][ /\ delivered => ~intervalOn
        /\ (delivered /\ inflight # << >> /\ inflight' = << >>) =>
              UNCHANGED << loginUrl, urlDetected >> ]_vars


\* C25: when all chunks of a text are handled, menuDisplayed and loginUrl
\* are what the handler leaves when the whole text comes as one chunk,
\* however the text was cut.
C25_ChunkingIrrelevant ==
    Pending = << >> =>
        /\ menuDisplayed = detectMenu(output)
        /\ loginUrl = (IF extractUrl(output) # << >>
                       THEN extractUrl(output)[1] ELSE << >>)


\* The unlink of this path was rejected in the finally block.
UnlinkFailed(path) ==
    \E i \in DOMAIN effects :
        effects[i].op = "unlink" /\ effects[i].arg = path /\ ~effects[i].ok

\* C26: the result is built before the finally block runs and the finally
\* block leaves it as it is, whether or not an unlink fails.  When the mock
\* scripts were created, the step that hands the result to the caller leaves
\* no mock script and no intercepted-URL file, except for what unlink
\* failed to remove.
C26_CleanupBeforeDelivery ==
    [][ /\ pc' = "cleanup" => result' # << >>
        /\ (pc = "cleanup" /\ pc' = "done") =>
              /\ result' = result
              /\ mockScriptsCreated =>
                    /\ scriptsOnDisk' => UnlinkFailed(tempDir)'
                    /\ fileContent' # << >> => UnlinkFailed(interceptedUrlFile)' ]_vars

\* C26 witness: the watchdog ended a run in which the intercepted-URL file
\* had been written and read; the result is with the caller, and the mock
\* scripts and the file are gone.
C26_Witness ==
    /\ delivered
    /\ mockScriptsCreated /\ fileApplied
    /\ Kills("SIGTERM") # {}
    /\ ~result[1].success
    /\ ~scriptsOnDisk /\ fileContent = << >>

=============================================================================
